---- MODULE Spec2Model ----
(***************************************************************************)
(* Model of the LightningLens online-learning core:                        *)
(*   OnlineLearner          (src/models/online_learner.py)                 *)
(*   FeatureProcessor       (src/models/features.py)                       *)
(*   SuggestionsService     (scripts/suggestions_service.py)               *)
(*   LightningLensClient    (scripts/websocket_client.py)                  *)
(*                                                                         *)
(* Ratios are fixed-point per-mille integers (500 = 0.5), the learning     *)
(* rate is in ten-thousandths (1000 = 0.1) and the performance scores are  *)
(* in millionths (1000000 = 1.0).  The regressor and the scaler of scikit-learn are       *)
(* abstracted by the data they were fitted on and by the level `w` the     *)
(* fitted regressor predicts; `w` is chosen when the regressor is fitted.  *)
(***************************************************************************)
EXTENDS Integers, Sequences, FiniteSets, TLC

VARIABLES
    buffer_size,            \* OnlineLearner.buffer_size
    min_samples_for_update, \* OnlineLearner.min_samples_for_update
    update_interval,        \* OnlineLearner.update_interval
    buffer,                 \* OnlineLearner.buffer (list of event dicts)
    transaction_count,      \* OnlineLearner.transaction_count
    is_fitted,              \* OnlineLearner.is_fitted
    model,                  \* OnlineLearner.model (the regressor)
    scaler,                 \* OnlineLearner.scaler
    learning_rate,          \* OnlineLearner.learning_rate (ten-thousandths)
    performance_history,    \* OnlineLearner.performance_history (recent window)
    snapshots,              \* artifacts written under data/models
    fit_accepts_nan,        \* whether the installed regressor fits rows with NaN
    preloaded,              \* whether __init__ was given an existing model_path
    submitted,              \* every event object handed to add_*, in call order
    ret,                    \* what the last call returned to its caller
    suggestions,            \* outcome of the last generate_suggestions call
    client_env,             \* LightningLensClient: imports resolved, config
    inflight                \* calls of other threads that are part-way through

learner_vars == <<buffer_size, min_samples_for_update, update_interval, buffer,
                  transaction_count, is_fitted, model, scaler, learning_rate,
                  performance_history, snapshots, fit_accepts_nan, preloaded,
                  submitted>>

vars == <<buffer_size, min_samples_for_update, update_interval, buffer,
          transaction_count, is_fitted, model, scaler, learning_rate,
          performance_history, snapshots, fit_accepts_nan, preloaded,
          submitted, ret, suggestions, client_env, inflight>>

(***************************************************************************)
(* Bounds of the model.                                                    *)
(***************************************************************************)
MaxAdds == 3
MaxRows == 2
MaxSnapshots == 1
HistoryWindow == 2
MaxChannels == 3

(* Configurations explored: the (buffer_size, min_samples_for_update,      *)
(* update_interval) arguments passed to __init__.                          *)
Configs ==
    { [buffer_size |-> 2, min_samples |-> 2, interval |-> 2],
      [buffer_size |-> 3, min_samples |-> 2, interval |-> 1],
      [buffer_size |-> 2, min_samples |-> 1, interval |-> 1],
      [buffer_size |-> 1, min_samples |-> 2, interval |-> 1] }

(***************************************************************************)
(* Telemetry events.                                                       *)
(*   channel: a channel-state dict with every REQUIRED_COLUMNS key and a   *)
(*            datetime timestamp                                           *)
(*   txn:     a transaction message as the clients submit it (ISO string   *)
(*            timestamp, nested transaction dict, no channel columns)      *)
(*   sample:  a row of the retrain path: the scaler's feature columns      *)
(*            plus optimal_balance                                         *)
(*   gap:     a retrain row one of whose feature values is null            *)
(***************************************************************************)
Shapes == {"channel", "txn", "sample", "gap"}

REQUIRED_COLUMNS == {"timestamp", "channel_id", "capacity", "local_balance",
                     "remote_balance", "balance_ratio"}

FeatureColumns == {"balance_velocity", "liquidity_stress", "hour_of_day",
                   "day_of_week", "balance_ratio"}

SampleTargets == {200}

ShapeColumns(shape) ==
    CASE shape = "channel" -> REQUIRED_COLUMNS
      [] shape = "txn"     -> {"event_type", "timestamp", "transaction"}
      [] shape = "sample"  -> FeatureColumns \cup {"optimal_balance"}
      [] shape = "gap"     -> FeatureColumns \cup {"optimal_balance"}

EventColumns(e) ==
    ShapeColumns(e.shape) \cup
        (IF e.data_type = "channel_state" THEN {"_data_type"} ELSE {})

Ids(buf) == [i \in 1..Len(buf) |-> buf[i].id]

(* columns of pd.DataFrame(self.buffer): the union of the dicts' keys *)
BufferColumns(buf) == UNION {EventColumns(buf[i]) : i \in 1..Len(buf)}

HasShape(buf, shape) == \E i \in 1..Len(buf) : buf[i].shape = shape

(***************************************************************************)
(* FeatureProcessor                                                        *)
(***************************************************************************)
(* faulty variant of validate_input: only the emptiness test *)
validate_input_empty_only(columns, n) ==
    IF n = 0 \/ columns = {} THEN "ValueError" ELSE "none"

(* validate_input on a table with these columns and n rows: the error it   *)
(* raises, "none" when it returns                                          *)
validate_input(columns, n) ==
    IF n = 0 \/ columns = {} THEN "ValueError"
    ELSE IF ~(REQUIRED_COLUMNS \subseteq columns) THEN "ValueError"
    ELSE "none"

NoTableOut(error) == [error |-> error, n |-> 0, columns |-> {}]

(* process_features on a table with these columns and n rows, whose        *)
(* timestamp column is datetime-typed or not: the error raised, or the     *)
(* feature table returned                                                  *)
process_features(columns, n, datetime_ts) ==
    IF validate_input(columns, n) # "none" THEN NoTableOut(validate_input(columns, n))
    ELSE IF ~({"timestamp", "channel_id", "local_balance"} \subseteq columns)
      THEN NoTableOut("KeyError")
    ELSE IF ~datetime_ts THEN NoTableOut("TypeError")
    ELSE IF ~({"capacity", "balance_ratio"} \subseteq columns)
      THEN NoTableOut("KeyError")
    ELSE [error |-> "none", n |-> n,
          columns |-> {"channel_id", "timestamp"} \cup FeatureColumns]

validate_input_raises(buf) == validate_input(BufferColumns(buf), Len(buf)) # "none"

(* calculate_balance_velocity sorts by timestamp and takes .dt of the      *)
(* timestamp differences: both raise unless the column is datetime-typed,  *)
(* which an ISO string timestamp in any row prevents.                      *)
calculate_balance_velocity_raises(buf) == HasShape(buf, "txn")

process_features_raises(buf) ==
    process_features(BufferColumns(buf), Len(buf),
                     ~calculate_balance_velocity_raises(buf)).error # "none"

(* rows that lack capacity / local_balance / timestamp get NaN features *)
FeaturesHaveNaN(buf) == HasShape(buf, "sample") \/ HasShape(buf, "gap")

(***************************************************************************)
(* Regressor and scaler values.                                            *)
(***************************************************************************)
DefaultPrediction == 500
PredLevels == {500, 900}
LoadedLevels == {900}

NewModel  == [origin |-> "new", w |-> DefaultPrediction, data |-> <<>>]
NewScaler == [fitted |-> FALSE, origin |-> "new", data |-> <<>>]
LoadedModel(w) == [origin |-> "loaded", w |-> w, data |-> <<>>]
LoadedScaler   == [fitted |-> TRUE, origin |-> "loaded", data |-> <<>>]
FitModel(buf, w, how) == [origin |-> how, w |-> w, data |-> Ids(buf)]
FitScaler(buf) == [fitted |-> TRUE, origin |-> "update", data |-> Ids(buf)]

NoReturn == [op |-> "none", value |-> FALSE, raised |-> FALSE, rows |-> <<>>,
             asked |-> 0, given |-> {}, error |-> "none", columns |-> {}]
Returned(op, v) == [op |-> op, value |-> v, raised |-> FALSE, rows |-> <<>>,
                    asked |-> 0, given |-> {}, error |-> "none", columns |-> {}]
NoSuggestions == [who |-> "none", raised |-> FALSE, list |-> <<>>, given |-> 0,
                  channels |-> <<>>]

(* no retrain and no update in progress; `observed` is what the last       *)
(* predict call found the regressor to be                                  *)
Idle == [retrain |-> "idle", seen |-> <<>>, eval_seen |-> <<>>,
         update |-> "idle", op |-> "none", batch |-> <<>>, observed |-> "none"]

InitialRate == 1000

(***************************************************************************)
(* __init__ : a new learner, or one constructed from a model artifact      *)
(* (with or without the matching scaler artifact, see _load_model).        *)
(***************************************************************************)
load_model(w, scaler_exists) ==
    /\ model = LoadedModel(w)
    /\ scaler = IF scaler_exists THEN LoadedScaler ELSE NewScaler
    /\ is_fitted = TRUE

InitLearner(configs, builds) ==
    /\ \E c \in configs :
          /\ buffer_size = c.buffer_size
          /\ min_samples_for_update = c.min_samples
          /\ update_interval = c.interval
    /\ buffer = <<>>
    /\ transaction_count = 0
    /\ learning_rate = InitialRate
    /\ performance_history = <<>>
    /\ snapshots = {}
    /\ fit_accepts_nan \in builds
    /\ preloaded \in BOOLEAN
    /\ IF preloaded
         THEN \E w \in LoadedLevels, scaler_exists \in BOOLEAN :
                 load_model(w, scaler_exists)
         ELSE /\ model = NewModel
              /\ scaler = NewScaler
              /\ is_fitted = FALSE
    /\ submitted = <<>>
    /\ ret = NoReturn
    /\ suggestions = NoSuggestions
    /\ inflight = Idle

(* rebalancing settings of configs/config.yaml as the client reads them,   *)
(* and whether the package imports resolved or the minimal stand-in        *)
(* classes of websocket_client.py are in use                               *)
DefaultMinTx == 10000
DefaultMaxTx == 1000000
DefaultThreshold == 100

DefaultClientEnv ==
    [minimal |-> FALSE, min_tx |-> DefaultMinTx, max_tx |-> DefaultMaxTx,
     threshold |-> DefaultThreshold]

ClientEnvs ==
    {[minimal |-> m, min_tx |-> c[1], max_tx |-> c[2], threshold |-> DefaultThreshold] :
        m \in BOOLEAN,
        c \in {<<DefaultMinTx, DefaultMaxTx>>, <<50000, 500000>>, <<500000, 50000>>}}

Init ==
    /\ InitLearner(Configs, BOOLEAN)
    /\ client_env = DefaultClientEnv

(***************************************************************************)
(* predict(features_df): `schema` is the column layout of the table and    *)
(* `n` its number of rows.  "features" is the FeatureProcessor's output;   *)
(* any other layout is rejected by the scaler.                             *)
(***************************************************************************)
TableSchemas == {"features", "raw"}

SchemaColumns(schema) ==
    IF schema = "features" THEN {"channel_id", "timestamp"} \cup FeatureColumns
                           ELSE REQUIRED_COLUMNS

Defaults(n) == [raised |-> FALSE, rows |-> [i \in 1..n |-> DefaultPrediction]]

scaler_transform_raises(schema, n) ==
    \/ ~scaler.fitted          \* NotFittedError
    \/ schema # "features"     \* feature names / width mismatch
    \/ n = 0                   \* zero-sample array

model_predict_raises == model.origin = "new"

(* the body of predict's try block *)
predict_try(schema, n) ==
    IF scaler_transform_raises(schema, n) \/ model_predict_raises
      THEN [raised |-> TRUE, rows |-> <<>>]
      ELSE [raised |-> FALSE, rows |-> [i \in 1..n |-> model.w]]

(* faulty variant of predict: the try block without its except clause *)
predict_uncaught(schema, n) ==
    IF ~is_fitted
      THEN Defaults(n)
      ELSE predict_try(schema, n)

predict(schema, n) ==
    IF ~is_fitted
      THEN Defaults(n)
      ELSE IF predict_try(schema, n).raised
             THEN Defaults(n)
             ELSE predict_try(schema, n)

(***************************************************************************)
(* _save_model_snapshot: dumps the regressor, then the scaler; an error in *)
(* either dump is caught, so an artifact pair may be left incomplete.      *)
(***************************************************************************)
SaveOutcomes == {"both", "model_only", "none"}

(* an artifact pair, with what the learner that wrote it predicts at that  *)
(* moment for every input table                                            *)
Snapshot(outcome) ==
    [model |-> model', scaler |-> scaler', scaler_written |-> outcome = "both",
     predictions |-> [q \in TableSchemas \X (0..MaxRows) |->
                         predict(q[1], q[2])']]

save_model_snapshot(outcome) ==
    IF outcome = "none" \/ Cardinality(snapshots) >= MaxSnapshots
      THEN snapshots' = snapshots
      ELSE snapshots' = snapshots \cup {Snapshot(outcome)}

(***************************************************************************)
(* _update_model over the buffer `buf` (the buffer after the append and    *)
(* the trim).  `w` is the level the re-fitted regressor predicts,          *)
(* `elapsed` whether more than 300 s passed since last_update_time, and    *)
(* `outcome` what the snapshot write achieves.                             *)
(***************************************************************************)
FitRaises(buf) == FeaturesHaveNaN(buf) /\ ~fit_accepts_nan

(* faulty variants of a failed update: reporting success, dropping the *)
(* fitted flag                                                         *)
update_failed_true(op) ==
    /\ ret' = Returned(op, TRUE)
    /\ UNCHANGED <<is_fitted, model, scaler, snapshots>>

update_failed_unfits(op) ==
    /\ ret' = Returned(op, FALSE)
    /\ is_fitted' = FALSE
    /\ UNCHANGED <<model, scaler, snapshots>>

(* faulty variant: the exception of the failed update escapes the call *)
update_failed_raises(op) ==
    /\ ret' = [Returned(op, FALSE) EXCEPT !.raised = TRUE]
    /\ UNCHANGED <<is_fitted, model, scaler, snapshots>>

update_failed(op) ==
    /\ ret' = Returned(op, FALSE)
    /\ UNCHANGED <<is_fitted, model, scaler, snapshots>>

update_model(op, buf, w, elapsed, outcome) ==
    IF buf = <<>> \/ process_features_raises(buf)
      THEN update_failed(op)
      ELSE IF ~is_fitted
        THEN \* first-time fit: the scaler is fitted before the regressor
             /\ scaler' = FitScaler(buf)
             /\ IF FitRaises(buf)
                  THEN /\ ret' = Returned(op, FALSE)
                       /\ UNCHANGED <<is_fitted, model, snapshots>>
                  ELSE /\ model' = FitModel(buf, w, "update")
                       /\ is_fitted' = TRUE
                       /\ save_model_snapshot(IF elapsed THEN outcome ELSE "none")
                       /\ ret' = Returned(op, TRUE)
        ELSE \* later updates: transform with the stored scaler, re-fit the regressor
             IF ~scaler.fitted \/ FitRaises(buf)
               THEN update_failed(op)
               ELSE /\ model' = FitModel(buf, w, "update")
                    /\ UNCHANGED <<is_fitted, scaler>>
                    /\ save_model_snapshot(IF elapsed THEN outcome ELSE "none")
                    /\ ret' = Returned(op, TRUE)

(***************************************************************************)
(* add_transaction / add_channel_state                                     *)
(***************************************************************************)
(* faulty variants of the trim: one event too late, keeping the oldest *)
TrimLate(buf) ==
    IF Len(buf) > buffer_size + 1
      THEN SubSeq(buf, Len(buf) - buffer_size + 1, Len(buf))
      ELSE buf

TrimHead(buf) ==
    IF Len(buf) > buffer_size
      THEN SubSeq(buf, 1, buffer_size)
      ELSE buf

Trim(buf) ==
    IF Len(buf) > buffer_size
      THEN SubSeq(buf, Len(buf) - buffer_size + 1, Len(buf))
      ELSE buf

(* faulty variants of the trigger: one of its two conditions dropped *)
ShouldUpdateNoMin(buf, count) == count % update_interval = 0

ShouldUpdateNoInterval(buf, count) == Len(buf) >= min_samples_for_update

ShouldUpdate(buf, count) ==
    /\ Len(buf) >= min_samples_for_update
    /\ count % update_interval = 0

NewEvent(shape, target, data_type) ==
    [id |-> Len(submitted) + 1, shape |-> shape, target |-> target,
     data_type |-> data_type]

add_transaction(op, e) ==
    LET buf == Trim(Append(buffer, e))
        count == transaction_count + 1
    IN  /\ transaction_count < MaxAdds
        /\ buffer' = buf
        /\ transaction_count' = count
        /\ submitted' = Append(submitted, e)
        /\ suggestions' = NoSuggestions
        /\ UNCHANGED <<buffer_size, min_samples_for_update, update_interval,
                       learning_rate, performance_history, fit_accepts_nan,
                       preloaded, client_env, inflight>>
        /\ IF ShouldUpdate(buf, count)
             THEN \E w \in PredLevels, elapsed \in BOOLEAN :
                     \E outcome \in (IF elapsed THEN SaveOutcomes ELSE {"none"}) :
                         update_model(op, buf, w, elapsed, outcome)
             ELSE /\ ret' = Returned(op, FALSE)
                  /\ UNCHANGED <<is_fitted, model, scaler, snapshots>>

EventInputs ==
    {[shape |-> "txn", target |-> 0]}
        \cup {[shape |-> "sample", target |-> t] : t \in SampleTargets}

AddTransaction ==
    \E i \in EventInputs :
        add_transaction("add_transaction", NewEvent(i.shape, i.target, "none"))

(* a retrain row one of whose feature values is null *)
AddIncompleteSample ==
    \E t \in SampleTargets :
        add_transaction("add_transaction", NewEvent("gap", t, "none"))

(* add_channel_state writes the '_data_type' marker into the caller's dict *)
(* and then buffers that same dict.                                        *)
AddChannelState ==
    add_transaction("add_channel_state", NewEvent("channel", 0, "channel_state"))

Predict ==
    \E schema \in TableSchemas, n \in 0..MaxRows :
        /\ ret' = [op |-> "predict", value |-> FALSE,
                   raised |-> predict(schema, n).raised,
                   rows |-> predict(schema, n).rows, asked |-> n,
                   given |-> SchemaColumns(schema), error |-> "none",
                   columns |-> {}]
        /\ suggestions' = NoSuggestions
        /\ UNCHANGED <<learner_vars, client_env, inflight>>

(***************************************************************************)
(* Adaptive learning rate (retrain, lines 308-324).  Rates are in          *)
(* ten-thousandths, scores in millionths; performance_history keeps the last HistoryWindow samples,   *)
(* which is all the code reads (its length against 1, and its last item).  *)
(***************************************************************************)
MaxRate == 5000
MinRate == 100
ScoreOne == 1000000

Min2(a, b) == IF a < b THEN a ELSE b
Max2(a, b) == IF a > b THEN a ELSE b
Abs(a) == IF a < 0 THEN -a ELSE a

RECURSIVE SumAbsErr(_, _)
SumAbsErr(buf, w) ==
    IF buf = <<>> THEN 0
    ELSE Abs(w - Head(buf).target) + SumAbsErr(Tail(buf), w)

(* columns of X = buffer_df.drop(['optimal_balance'], axis=1); a KeyError *)
(* when the column is absent                                              *)
drop_optimal_balance_raises(buf) == "optimal_balance" \notin BufferColumns(buf)

retrain_transform_raises(buf) ==
    \/ ~scaler.fitted
    \/ BufferColumns(buf) \ {"optimal_balance"} # FeatureColumns

(* a null feature value passes the scaler; the regressor's predict and fit *)
(* reject it unless the build's regressor accepts NaN                     *)
retrain_rejects_nan(buf) == HasShape(buf, "gap") /\ ~fit_accepts_nan

(* _evaluate_performance: 1 / (1 + MAE), or 0.0 when anything raises *)
evaluate_performance(buf) ==
    IF \/ buf = <<>>
       \/ drop_optimal_balance_raises(buf)
       \/ retrain_transform_raises(buf)
       \/ model_predict_raises
       \/ retrain_rejects_nan(buf)
      THEN 0
      ELSE (ScoreOne * 1000) \div (1000 + (SumAbsErr(buf, model.w) \div Len(buf)))

(* faulty variant of the adjustment: the increase without its cap *)
AdjustRateNoCap(rate, history, current) ==
    IF Len(history) > 1
      THEN IF current > history[Len(history)]
             THEN (rate * 11) \div 10
             ELSE Max2(MinRate, (rate * 9) \div 10)
      ELSE rate

AdjustRate(rate, history, current) ==
    IF Len(history) > 1
      THEN IF current > history[Len(history)]
             THEN Min2(MaxRate, (rate * 11) \div 10)
             ELSE Max2(MinRate, (rate * 9) \div 10)
      ELSE rate

AppendHistory(history, score) ==
    LET h == Append(history, score)
    IN  IF Len(h) > HistoryWindow
          THEN SubSeq(h, Len(h) - HistoryWindow + 1, Len(h))
          ELSE h

(***************************************************************************)
(* retrain()                                                               *)
(***************************************************************************)
retrain(w) ==
    /\ suggestions' = NoSuggestions
    /\ UNCHANGED <<buffer_size, min_samples_for_update, update_interval,
                   transaction_count, is_fitted, scaler, snapshots,
                   fit_accepts_nan, preloaded, submitted, client_env, inflight>>
    /\ IF \/ Len(buffer) < min_samples_for_update
          \/ drop_optimal_balance_raises(buffer)
          \/ retrain_transform_raises(buffer)
         THEN /\ ret' = Returned("retrain", FALSE)
              /\ UNCHANGED <<buffer, model, learning_rate, performance_history>>
         ELSE LET current == evaluate_performance(buffer)
              IN  /\ learning_rate' =
                         AdjustRate(learning_rate, performance_history, current)
                  /\ performance_history' =
                         AppendHistory(performance_history, current)
                  /\ IF retrain_rejects_nan(buffer)
                       THEN \* model.fit raises after the rate and the history changed
                            /\ ret' = Returned("retrain", FALSE)
                            /\ UNCHANGED <<buffer, model>>
                       ELSE /\ model' = FitModel(buffer, w, "retrain")
                            /\ buffer' = <<>>
                            /\ ret' = Returned("retrain", TRUE)

Retrain == \E w \in PredLevels : retrain(w)

(***************************************************************************)
(* Channel data handed to the recommendation generators: an insertion-     *)
(* ordered dict node -> list of channel dicts.  Capacities are multiples   *)
(* of 1000 so that ratios are exact per-mille values.                      *)
(***************************************************************************)
Nodes == {"alice", "bob"}
NoNode == ""
(* a pubkey as <<first eight characters, remainder>> *)
RemotePubkeys == {<<"02ab34cd", "ef56">>}

ChannelDicts ==
    {[capacity |-> 0, local_balance |-> 0, remote_pubkey |-> k, carries_id |-> FALSE] :
        k \in RemotePubkeys}
    \cup
    {[capacity |-> 40000, local_balance |-> 12000, remote_pubkey |-> k,
      carries_id |-> FALSE] : k \in RemotePubkeys}
    \cup
    {[capacity |-> c[1], local_balance |-> c[2], remote_pubkey |-> k, carries_id |-> TRUE] :
        c \in {<<1000000, 300000>>, <<40000, 16000>>, <<4000000, 4000000>>},
        k \in RemotePubkeys}

RECURSIVE SeqsUpTo(_, _)
SeqsUpTo(S, n) ==
    IF n = 0 THEN {<<>>}
    ELSE SeqsUpTo(S, n - 1) \cup
         {Append(q, x) : q \in {r \in SeqsUpTo(S, n - 1) : Len(r) = n - 1}, x \in S}

(* the first node of the dict has up to MaxChannels channels, every other *)
(* node at most one                                                      *)
ChannelLists == SeqsUpTo(ChannelDicts, MaxChannels)
OtherChannelLists == SeqsUpTo(ChannelDicts, 1)

NodeOrders == {<<>>, <<"alice">>, <<"alice", "bob">>, <<"bob", "alice">>}

ChannelInputs ==
    {<<>>} \cup
    UNION {{[i \in 1..Len(o) |->
                [node |-> o[i], chans |-> IF i = 1 THEN first ELSE others[i]]] :
               first \in ChannelLists,
               others \in [2..Len(o) -> OtherChannelLists]} :
           o \in NodeOrders \ {<<>>}}

(* remote_pubkey[:8] *)
Prefix8(pubkey) == pubkey[1]

(* channel_id.split('_')[0] of f"{node}_{prefix}"; the node names explored *)
(* contain no underscore                                                   *)
FirstPart(node) == node

BalancedRatio == 500

balance_ratio(local_balance, capacity) ==
    IF capacity > 0 THEN local_balance \div (capacity \div 1000) ELSE BalancedRatio

(* prepare_features: one row per channel with non-zero capacity *)
RECURSIVE NodeRows(_, _)
NodeRows(node, chans) ==
    IF chans = <<>> THEN <<>>
    ELSE LET c == Head(chans)
         IN  (IF c.capacity = 0 THEN <<>>
              ELSE <<[node |-> node, prefix |-> Prefix8(c.remote_pubkey),
                      capacity |-> c.capacity, local_balance |-> c.local_balance,
                      balance_ratio |-> balance_ratio(c.local_balance, c.capacity)]>>)
             \o NodeRows(node, Tail(chans))

RECURSIVE PrepareRows(_)
PrepareRows(channels) ==
    IF channels = <<>> THEN <<>>
    ELSE NodeRows(Head(channels).node, Head(channels).chans)
         \o PrepareRows(Tail(channels))

(* the rows as the FeatureProcessor sees them: complete channel records *)
RowsAsEvents(rows) ==
    [i \in 1..Len(rows) |->
        [id |-> i, shape |-> "channel", target |-> 0, data_type |-> "none"]]

NoTable == [schema |-> "none", rows |-> <<>>]

(* SuggestionsService.prepare_features: the raw frame when processing fails *)
service_prepare_features(channels) ==
    LET rows == PrepareRows(channels)
    IN  IF rows = <<>> THEN NoTable
        ELSE IF process_features_raises(RowsAsEvents(rows))
               THEN [schema |-> "raw", rows |-> rows]
               ELSE [schema |-> "features", rows |-> rows]

(* LightningLensClient.prepare_features: None when processing fails; the   *)
(* stand-in FeatureProcessor returns the frame unchanged                   *)
client_prepare_features(channels) ==
    LET rows == PrepareRows(channels)
    IN  IF rows = <<>> THEN NoTable
        ELSE IF client_env.minimal THEN [schema |-> "raw", rows |-> rows]
        ELSE IF process_features_raises(RowsAsEvents(rows)) THEN NoTable
        ELSE [schema |-> "features", rows |-> rows]

(* the frame keeps a 'capacity' column only when it is the raw frame *)
HasCapacityColumn(table) == table.schema = "raw"

WithAdjustment(rows, predictions) ==
    [i \in 1..Len(rows) |->
        [row |-> rows[i], adjustment |-> predictions[i] - rows[i].balance_ratio]]

RECURSIVE Significant(_, _)
Significant(cands, threshold) ==
    IF cands = <<>> THEN <<>>
    ELSE (IF Abs(Head(cands).adjustment) > threshold THEN <<Head(cands)>> ELSE <<>>)
         \o Significant(Tail(cands), threshold)

(* sort_values(by='adjustment_needed', key=abs, ascending=False) *)
RECURSIVE InsertDesc(_, _)
InsertDesc(sorted, c) ==
    IF sorted = <<>> THEN <<c>>
    ELSE IF Abs(Head(sorted).adjustment) >= Abs(c.adjustment)
           THEN <<Head(sorted)>> \o InsertDesc(Tail(sorted), c)
           ELSE <<c>> \o sorted

RECURSIVE SortDesc(_)
SortDesc(cands) ==
    IF cands = <<>> THEN <<>>
    ELSE InsertDesc(SortDesc(SubSeq(cands, 1, Len(cands) - 1)), cands[Len(cands)])

TopK == 3
(* faulty variant of head(3): no cut *)
Head3NoCut(cands) == cands

Head3(cands) == SubSeq(cands, 1, Min2(TopK, Len(cands)))

rebalance_candidates(table, predictions, threshold) ==
    Head3(SortDesc(Significant(WithAdjustment(table.rows, predictions), threshold)))

(* faulty variant of the clamp: the upper limit dropped *)
ClampAmountNoMax(amount, min_tx, max_tx) == Max2(min_tx, amount)

(* amount = max(min_tx, min(max_tx, int(abs(adjustment) * capacity))) *)
ClampAmount(amount, min_tx, max_tx) == Max2(min_tx, Min2(max_tx, amount))

RebalanceAmount(adjustment, capacity, min_tx, max_tx) ==
    ClampAmount(Abs(adjustment) * (capacity \div 1000), min_tx, max_tx)

(* faulty variant of the direction: the two branches exchanged *)
SuggestionReversed(from_node, to_node, adjustment, amount) ==
    IF adjustment < 0
      THEN [from_node |-> to_node, to_node |-> from_node, amount |-> amount,
            reason |-> [pct |-> Abs(adjustment), side |-> "too full"]]
      ELSE [from_node |-> from_node, to_node |-> to_node, amount |-> amount,
            reason |-> [pct |-> Abs(adjustment), side |-> "too empty"]]

Suggestion(from_node, to_node, adjustment, amount) ==
    IF adjustment < 0
      THEN [from_node |-> from_node, to_node |-> to_node, amount |-> amount,
            reason |-> [pct |-> Abs(adjustment), side |-> "too full"]]
      ELSE [from_node |-> to_node, to_node |-> from_node, amount |-> amount,
            reason |-> [pct |-> Abs(adjustment), side |-> "too empty"]]

(* the first key of the dict that differs from `node`, None when absent *)
RECURSIVE OtherNode(_, _)
OtherNode(channels, node) ==
    IF channels = <<>> THEN NoNode
    ELSE IF Head(channels).node # node THEN Head(channels).node
    ELSE OtherNode(Tail(channels), node)

(***************************************************************************)
(* SuggestionsService.generate_suggestions(channels)                       *)
(***************************************************************************)
Raised == [raised |-> TRUE, list |-> <<>>]

(* predictions column: the learner's predict when fitted, else 0.5; an     *)
(* exception around predict also falls back to 0.5                         *)
service_predictions(table) ==
    IF is_fitted
      THEN IF predict(table.schema, Len(table.rows)).raised
             THEN Defaults(Len(table.rows)).rows
             ELSE predict(table.schema, Len(table.rows)).rows
      ELSE Defaults(Len(table.rows)).rows

(* the for loop over the selected rows; row['capacity'] is a KeyError when *)
(* the frame has no capacity column, and it is not caught                  *)
RECURSIVE service_loop(_, _, _)
service_loop(selected, channels, has_capacity) ==
    IF selected = <<>> THEN [raised |-> FALSE, list |-> <<>>]
    ELSE LET c == Head(selected)
             from_node == FirstPart(c.row.node)
             to_node == OtherNode(channels, from_node)
             rest == service_loop(Tail(selected), channels, has_capacity)
         IN  IF to_node = NoNode THEN rest
             ELSE IF ~has_capacity THEN Raised
             ELSE IF rest.raised THEN Raised
             ELSE [raised |-> FALSE,
                   list |-> <<Suggestion(from_node, to_node, c.adjustment,
                                  RebalanceAmount(c.adjustment, c.row.capacity,
                                                  DefaultMinTx, DefaultMaxTx))>>
                            \o rest.list]

service_generate_suggestions(channels) ==
    LET table == service_prepare_features(channels)
    IN  IF channels = <<>> \/ table = NoTable
          THEN [raised |-> FALSE, list |-> <<>>]
          ELSE service_loop(
                   rebalance_candidates(table, service_predictions(table),
                                        DefaultThreshold),
                   channels, HasCapacityColumn(table))

GenerateService ==
    /\ suggestions.who = "none"
    /\ \E channels \in ChannelInputs :
          LET result == service_generate_suggestions(channels)
          IN  suggestions' = [who |-> "service", raised |-> result.raised,
                              list |-> result.list, given |-> Len(channels),
                              channels |-> channels]
    /\ ret' = NoReturn
    /\ UNCHANGED <<learner_vars, client_env, inflight>>

(***************************************************************************)
(* LightningLensClient.generate_suggestions()                              *)
(***************************************************************************)
(* self.trainer is a ModelTrainer whose scaler was never fitted, so its    *)
(* predict raises and the client falls back to 0.5; the stand-in trainer   *)
(* returns 0.5 for every row                                               *)
client_predictions(table) == Defaults(Len(table.rows)).rows

(* str(channel_id) in str(channel) *)
ChannelMentions(node, chan, row) ==
    /\ chan.carries_id
    /\ node = row.node
    /\ Prefix8(chan.remote_pubkey) = row.prefix

NodeMentions(entry, row) ==
    \E i \in 1..Len(entry.chans) : ChannelMentions(entry.node, entry.chans[i], row)

(* the nested lookup of from_node / to_node over self.channel_data *)
RECURSIVE client_find_nodes(_, _, _, _)
client_find_nodes(rest, channels, row, found) ==
    IF rest = <<>> \/ (found.from_node # NoNode /\ found.to_node # NoNode)
      THEN found
      ELSE IF NodeMentions(Head(rest), row)
        THEN client_find_nodes(Tail(rest), channels, row,
                 [from_node |-> Head(rest).node,
                  to_node |-> IF OtherNode(channels, Head(rest).node) # NoNode
                                THEN OtherNode(channels, Head(rest).node)
                                ELSE found.to_node])
        ELSE client_find_nodes(Tail(rest), channels, row, found)

RECURSIVE client_loop(_, _, _)
client_loop(selected, channels, has_capacity) ==
    IF selected = <<>> THEN [raised |-> FALSE, list |-> <<>>]
    ELSE LET c == Head(selected)
             found == client_find_nodes(channels, channels, c.row,
                          [from_node |-> NoNode, to_node |-> NoNode])
             rest == client_loop(Tail(selected), channels, has_capacity)
         IN  IF found.from_node = NoNode \/ found.to_node = NoNode THEN rest
             ELSE IF ~has_capacity THEN Raised
             ELSE IF rest.raised THEN Raised
             ELSE [raised |-> FALSE,
                   list |-> <<Suggestion(found.from_node, found.to_node, c.adjustment,
                                  RebalanceAmount(c.adjustment, c.row.capacity,
                                                  client_env.min_tx, client_env.max_tx))>>
                            \o rest.list]

client_generate_suggestions(channels) ==
    LET table == client_prepare_features(channels)
    IN  IF channels = <<>> \/ table = NoTable
          THEN [raised |-> FALSE, list |-> <<>>]
          ELSE client_loop(
                   rebalance_candidates(table, client_predictions(table),
                                        client_env.threshold),
                   channels, HasCapacityColumn(table))

GenerateClient ==
    /\ suggestions.who = "none"
    /\ \E channels \in ChannelInputs :
          LET result == client_generate_suggestions(channels)
          IN  suggestions' = [who |-> "client", raised |-> result.raised,
                              list |-> result.list, given |-> Len(channels),
                              channels |-> channels]
    /\ ret' = NoReturn
    /\ UNCHANGED <<learner_vars, client_env, inflight>>

(* send_suggestions: the caller posts the list (or logs the exception) and *)
(* drops it before the next request is served                              *)
SendSuggestions ==
    /\ suggestions.who # "none"
    /\ suggestions' = NoSuggestions
    /\ ret' = NoReturn
    /\ UNCHANGED <<learner_vars, client_env, inflight>>

(***************************************************************************)
(* The learner process: ingestion, retraining and prediction.              *)
(***************************************************************************)
Next ==
    \/ AddTransaction
    \/ AddChannelState
    \/ Retrain
    \/ Predict

Spec == Init /\ [][Next]_vars

(* the learner fed retrain rows that may carry null feature values *)
NextRetrain == Next \/ AddIncompleteSample

SpecRetrain == Init /\ [][NextRetrain]_vars

(***************************************************************************)
(* The recommendation path: a service or client process, constructed with  *)
(* or without a persisted model, answering requests for suggestions.       *)
(***************************************************************************)
ServiceConfig == [buffer_size |-> 2, min_samples |-> 1, interval |-> 1]

InitSuggest ==
    /\ InitLearner({ServiceConfig}, {FALSE})
    /\ client_env \in ClientEnvs

NextSuggest ==
    \/ GenerateService
    \/ GenerateClient
    \/ SendSuggestions

SpecSuggest == InitSuggest /\ [][NextSuggest]_vars

(***************************************************************************)
(* The adaptive controller on its own: the evaluate-and-adjust step of     *)
(* retrain (lines 308-324) applied to a stream of performance scores.      *)
(***************************************************************************)
Scores == {0, 555555, ScoreOne}

AdjustStep ==
    \E current \in Scores :
        /\ learning_rate' = AdjustRate(learning_rate, performance_history, current)
        /\ performance_history' = AppendHistory(performance_history, current)
        /\ ret' = Returned("adjust", TRUE)
        /\ UNCHANGED <<buffer_size, min_samples_for_update, update_interval,
                       buffer, transaction_count, is_fitted, model, scaler,
                       snapshots, fit_accepts_nan, preloaded, submitted,
                       suggestions, client_env, inflight>>

InitRate ==
    /\ InitLearner({ServiceConfig}, {FALSE})
    /\ client_env = DefaultClientEnv

NextRate == AdjustStep

SpecRate == InitRate /\ [][NextRate]_vars

(***************************************************************************)
(* The learner shared between threads, as when retrain runs in the         *)
(* background thread of http_server.py while other threads ingest and      *)
(* predict.  OnlineLearner takes no lock, so the calls interleave between  *)
(* their statements: retrain is split at its reads and its write of        *)
(* self.buffer, an update at the regressor's fit.                          *)
(***************************************************************************)
FixedLearner == <<buffer_size, min_samples_for_update, update_interval,
                  fit_accepts_nan, preloaded, client_env>>

(* retrain, lines 293-306: the length test and buffer_df = DataFrame(buffer) *)
RetrainRead ==
    /\ inflight.retrain = "idle"
    /\ IF \/ Len(buffer) < min_samples_for_update
          \/ drop_optimal_balance_raises(buffer)
          \/ retrain_transform_raises(buffer)
         THEN /\ ret' = Returned("retrain", FALSE)
              /\ inflight' = inflight
         ELSE /\ ret' = ret
              /\ inflight' = [inflight EXCEPT !.retrain = "read", !.seen = buffer]
    /\ UNCHANGED <<FixedLearner, buffer, transaction_count, is_fitted, model,
                   scaler, learning_rate, performance_history, snapshots,
                   submitted, suggestions>>

(* retrain, lines 308-324: _evaluate_performance builds its own DataFrame *)
(* from self.buffer (line 355), then the rate is adjusted                 *)
RetrainEvaluate ==
    /\ inflight.retrain = "read"
    /\ LET current == evaluate_performance(buffer)
       IN  /\ learning_rate' =
                  AdjustRate(learning_rate, performance_history, current)
           /\ performance_history' = AppendHistory(performance_history, current)
    /\ inflight' = [inflight EXCEPT !.retrain = "evaluated", !.eval_seen = buffer]
    /\ UNCHANGED <<FixedLearner, buffer, transaction_count, is_fitted, model,
                   scaler, snapshots, submitted, ret, suggestions>>

(* retrain, lines 326-345: the fit on the frame read at line 299, then *)
(* self.buffer = []                                                    *)
RetrainFinish ==
    /\ inflight.retrain = "evaluated"
    /\ \E w \in PredLevels : model' = FitModel(inflight.seen, w, "retrain")
    /\ buffer' = <<>>
    /\ ret' = Returned("retrain", TRUE)
    /\ inflight' = [inflight EXCEPT !.retrain = "idle", !.seen = <<>>,
                                    !.eval_seen = <<>>]
    /\ UNCHANGED <<FixedLearner, transaction_count, is_fitted, scaler,
                   learning_rate, performance_history, snapshots, submitted,
                   suggestions>>

(* whether _update_model gets as far as the regressor's fit *)
update_reaches_fit(buf) ==
    /\ buf # <<>>
    /\ ~process_features_raises(buf)
    /\ ~FitRaises(buf)
    /\ (is_fitted => scaler.fitted)

(* add_transaction up to the call of self.model.fit (lines 116-180/189) *)
ingest_begin(op, e) ==
    LET buf == Trim(Append(buffer, e))
        count == transaction_count + 1
    IN  /\ inflight.update = "idle"
        /\ transaction_count < MaxAdds
        /\ buffer' = buf
        /\ transaction_count' = count
        /\ submitted' = Append(submitted, e)
        /\ UNCHANGED <<FixedLearner, learning_rate, performance_history,
                       suggestions>>
        /\ IF ShouldUpdate(buf, count)
             THEN IF update_reaches_fit(buf)
                    THEN /\ scaler' = IF is_fitted THEN scaler ELSE FitScaler(buf)
                         /\ inflight' = [inflight EXCEPT !.update = "fitting",
                                                         !.op = op, !.batch = buf]
                         /\ UNCHANGED <<is_fitted, model, snapshots, ret>>
                    ELSE /\ update_model(op, buf, DefaultPrediction, FALSE, "none")
                         /\ inflight' = inflight
             ELSE /\ ret' = Returned(op, FALSE)
                  /\ inflight' = inflight
                  /\ UNCHANGED <<is_fitted, model, scaler, snapshots>>

IngestTransaction ==
    \E i \in EventInputs :
        ingest_begin("add_transaction", NewEvent(i.shape, i.target, "none"))

IngestChannelState ==
    ingest_begin("add_channel_state", NewEvent("channel", 0, "channel_state"))

(* the fit returns: lines 181/190-199 *)
IngestFitted ==
    /\ inflight.update = "fitting"
    /\ UNCHANGED <<FixedLearner, buffer, transaction_count, scaler,
                   learning_rate, performance_history, submitted, suggestions>>
    /\ is_fitted' = TRUE
    /\ \E w \in PredLevels, elapsed \in BOOLEAN :
          \E outcome \in (IF elapsed THEN SaveOutcomes ELSE {"none"}) :
              /\ model' = FitModel(inflight.batch, w, "update")
              /\ save_model_snapshot(IF elapsed THEN outcome ELSE "none")
    /\ ret' = Returned(inflight.op, TRUE)
    /\ inflight' = [inflight EXCEPT !.update = "idle", !.op = "none",
                                    !.batch = <<>>]

(* predict from another thread.  When it reaches self.model.predict while  *)
(* the regressor's fit is running it reads a forest that is being rebuilt: *)
(* the result is whatever that state yields, or the 0.5 fallback.          *)
PredictShared ==
    \E schema \in TableSchemas, n \in 1..MaxRows :
        LET midfit == /\ is_fitted
                      /\ inflight.update = "fitting"
                      /\ ~scaler_transform_raises(schema, n)
        IN  /\ IF midfit
                 THEN \E w \in PredLevels :
                         ret' = [op |-> "predict", value |-> FALSE, raised |-> FALSE,
                                 rows |-> [i \in 1..n |-> w], asked |-> n,
                   given |-> {}, error |-> "none", columns |-> {}]
                 ELSE ret' = [op |-> "predict", value |-> FALSE,
                              raised |-> predict(schema, n).raised,
                              rows |-> predict(schema, n).rows, asked |-> n,
                   given |-> {}, error |-> "none", columns |-> {}]
            /\ inflight' = [inflight EXCEPT
                               !.observed = IF midfit THEN "midfit" ELSE "complete"]
            /\ UNCHANGED <<learner_vars, suggestions, client_env>>

InitThreads ==
    /\ InitLearner({ServiceConfig}, {FALSE})
    /\ client_env = DefaultClientEnv

NextThreads ==
    \/ IngestTransaction
    \/ IngestChannelState
    \/ IngestFitted
    \/ RetrainRead
    \/ RetrainEvaluate
    \/ RetrainFinish
    \/ PredictShared

SpecThreads == InitThreads /\ [][NextThreads]_vars

(***************************************************************************)
(* Properties                                                              *)
(***************************************************************************)
AddOps == {"add_transaction", "add_channel_state"}

(* the update trigger, evaluated on the buffer after the append and trim *)
TriggerHolds ==
    /\ Len(buffer) >= min_samples_for_update
    /\ transaction_count % update_interval = 0

LastN(seq, n) == SubSeq(seq, Len(seq) - n + 1, Len(seq))

C3_Original == ret.op \in AddOps => (ret.value <=> TriggerHolds)

(* C3 amended: an add call returns True if and only if the trigger holds   *)
(* and the triggered model update succeeds, i.e. the regressor has been    *)
(* re-fitted on the current buffer; when the update fails it returns False.*)
C3_Amended ==
    ret.op \in AddOps =>
        (ret.value <=> /\ TriggerHolds
                       /\ model.origin = "update"
                       /\ model.data = Ids(buffer))

C3_Witness == ret.op \in AddOps /\ ret.value /\ Len(submitted) > 1

AllDefault(rows) == \A i \in 1..Len(rows) : rows[i] = DefaultPrediction

(* C4 as stated: whenever the buffer holds fewer than                      *)
(* min_samples_for_update events, an add call does not return True and     *)
(* predict returns exactly 0.5 for every row.                              *)
C4_Original ==
    Len(buffer) < min_samples_for_update =>
        /\ (ret.op \in AddOps => ~ret.value)
        /\ (ret.op = "predict" => AllDefault(ret.rows))

(* C4 amended: whenever the buffer holds fewer than                        *)
(* min_samples_for_update events an add call does not return True; predict *)
(* returns exactly 0.5 for every row whenever the model is unfitted, which *)
(* for such a buffer is the case if the learner was created without a      *)
(* preloaded model and no retrain has emptied the buffer.                  *)
C4_Amended ==
    /\ (Len(buffer) < min_samples_for_update /\ ret.op \in AddOps => ~ret.value)
    /\ (~is_fitted /\ ret.op = "predict" => AllDefault(ret.rows))
    /\ (Len(buffer) < min_samples_for_update /\ ~preloaded
            /\ performance_history = <<>> => ~is_fitted)

C4_Witness ==
    /\ ret.op = "predict"
    /\ ret.asked > 0
    /\ ~is_fitted
    /\ buffer # <<>>
    /\ Len(buffer) < min_samples_for_update

SuggestionMinTx == IF suggestions.who = "client" THEN client_env.min_tx ELSE DefaultMinTx
SuggestionMaxTx == IF suggestions.who = "client" THEN client_env.max_tx ELSE DefaultMaxTx

C6_RateBounds == MinRate <= learning_rate /\ learning_rate <= MaxRate

C6_Witness == learning_rate = MaxRate /\ Len(performance_history) > 1

(* C7: once is_fitted is True it stays True under every later operation,   *)
(* including operations that fail.                                         *)
C7_NeverUnfitted == [][is_fitted => is_fitted']_vars

C7_Witness ==
    /\ is_fitted
    /\ ret.op \in AddOps
    /\ TriggerHolds
    /\ ~ret.value

(* C8 as stated: for a learner created without a preloaded model the model *)
(* is fitted at the first add call at which the trigger holds.             *)
C8_Original ==
    ~preloaded /\ ret.op \in AddOps /\ TriggerHolds => is_fitted

(* C8 amended: for a learner created without a preloaded model the         *)
(* Unfitted -> Fitted transition happens at most once, only at an add call *)
(* at which the trigger holds, and exactly at the first such call whose    *)
(* model update succeeds (the call returns True).                          *)
C8_Amended ==
    [][~preloaded =>
          /\ is_fitted => is_fitted'
          /\ ~is_fitted =>
                (is_fitted' <=> (ret'.op \in AddOps /\ ret'.value /\ TriggerHolds'))]_vars

C8_Witness ==
    /\ ~preloaded
    /\ is_fitted
    /\ ret.op \in AddOps
    /\ ret.value
    /\ scaler.data = Ids(buffer)
    /\ min_samples_for_update = 1
    /\ update_interval = 1
    /\ submitted[1].shape = "txn"

(* C9: predict returns one value per input row and never raises, in every  *)
(* model state and for every input table; while the model is unfitted      *)
(* every value is 0.5.                                                     *)
C9_PredictDefined ==
    ret.op = "predict" =>
        /\ ~ret.raised
        /\ Len(ret.rows) = ret.asked
        /\ (~is_fitted => AllDefault(ret.rows))

C9_Witness ==
    /\ ret.op = "predict"
    /\ ret.asked > 0
    /\ is_fitted
    /\ ~scaler.fitted

(* C10: recommendation generation returns a (possibly empty) list and      *)
(* never raises, for every channel-state input and every model state; for  *)
(* an empty input it returns the empty list.                               *)
C10_NeverRaises ==
    suggestions.who # "none" =>
        /\ ~suggestions.raised
        /\ (suggestions.given = 0 => suggestions.list = <<>>)

(* an add step: one more event has been submitted *)
AddStep == Len(submitted') = Len(submitted) + 1

(* C11: a failure of feature extraction or fitting for the buffered batch  *)
(* does not crash ingestion: the add call does not raise and returns       *)
(* False, and every add call, also the one after a failure, buffers its    *)
(* event and counts it.                                                    *)
C11_IngestionSurvives ==
    [][AddStep =>
          /\ ret'.op \in AddOps
          /\ ~ret'.raised
          /\ transaction_count' = transaction_count + 1
          /\ buffer' # <<>>
          /\ buffer'[Len(buffer')] = submitted'[Len(submitted')]
          /\ (TriggerHolds' /\ process_features_raises(buffer') => ~ret'.value)]_vars

C11_Witness ==
    /\ ret.op \in AddOps
    /\ ~ret.raised
    /\ min_samples_for_update = 1
    /\ update_interval = 1
    /\ submitted # <<>>
    /\ submitted[1].shape = "txn"
    /\ transaction_count = 2
    /\ Len(buffer) = 2

WellFormed(e) == e.shape = "channel"

WellFormedCount(buf) == Cardinality({i \in 1..Len(buf) : WellFormed(buf[i])})

(* C12: one malformed event in the buffer does not poison it: a triggered  *)
(* update over a buffer that holds exactly one malformed event and at      *)
(* least min_samples_for_update well-formed events succeeds.               *)
C12_NotPoisoned ==
    /\ ~preloaded
    /\ ret.op \in AddOps
    /\ TriggerHolds
    /\ WellFormedCount(buffer) = Len(buffer) - 1
    /\ WellFormedCount(buffer) >= min_samples_for_update
    => ret.value

(* C13: a retrain running concurrently with ingestion never observes a    *)
(* buffer mutated mid-read: while a retrain is between its first buffer    *)
(* read and its final buffer write the buffer is what it first read, and   *)
(* its second read saw the same contents as its first.                     *)
C13_RetrainIsolated ==
    /\ inflight.retrain # "idle" => buffer = inflight.seen
    /\ inflight.retrain = "evaluated" => inflight.eval_seen = inflight.seen

(* C14: a predict call running concurrently with a model update never      *)
(* observes a regressor that is mid-fit.                                   *)
C14_PredictSeesCompleteModel == inflight.observed # "midfit"

(* C15: after every successful update, not only the first, the live        *)
(* regressor and the live scaler are one pair produced by the same re-fit  *)
(* over the current buffer.                                                *)
C15_PairFromSameFit ==
    ret.op \in AddOps /\ ret.value =>
        /\ model.origin = "update"
        /\ model.data = Ids(buffer)
        /\ scaler.origin = "update"
        /\ scaler.data = model.data

(* a retrain step that succeeded: it emptied a non-empty buffer *)
RetrainSucceeds ==
    /\ ret'.op = "retrain"
    /\ ret'.value
    /\ buffer # <<>>
    /\ buffer' = <<>>

(* C16: on every retrain for which a previous performance score exists     *)
(* the learning rate becomes min(0.5, 1.1 * rate) when the current score   *)
(* is strictly greater than the previous one and max(0.01, 0.9 * rate)     *)
(* otherwise.                                                              *)
C16_AdjustRule ==
    [][RetrainSucceeds /\ performance_history # <<>> =>
          learning_rate' =
              IF performance_history'[Len(performance_history')]
                    > performance_history[Len(performance_history)]
                THEN Min2(MaxRate, (learning_rate * 11) \div 10)
                ELSE Max2(MinRate, (learning_rate * 9) \div 10)]_vars

(* the channels of the request that have a capacity, as <<node index,      *)
(* channel index>>, and the adjustment the generator computes for each     *)
RequestChannels ==
    {p \in UNION {{<<i, j>> : j \in 1..Len(suggestions.channels[i].chans)} :
                     i \in 1..Len(suggestions.channels)} :
        suggestions.channels[p[1]].chans[p[2]].capacity # 0}

RequestPrediction ==
    IF suggestions.who = "service" /\ is_fitted /\ scaler.fitted /\ model.origin # "new"
      THEN model.w
      ELSE 500

RequestAdjustment(p) ==
    LET c == suggestions.channels[p[1]].chans[p[2]]
    IN  RequestPrediction - (c.local_balance \div (c.capacity \div 1000))

RequestThreshold ==
    IF suggestions.who = "client" THEN client_env.threshold ELSE 100

(* C17: the emitted recommendations are drawn only from channels with      *)
(* |adjustment_needed| strictly greater than the threshold, only from the  *)
(* 3 largest such channels, appear in descending order of                  *)
(* |adjustment_needed| and number at most 3.                               *)
C17_TopKSelection ==
    LET list == suggestions.list
    IN  /\ Len(list) <= 3
        /\ \A k \in 1..Len(list) :
              /\ list[k].reason.pct > RequestThreshold
              /\ k < Len(list) => list[k].reason.pct >= list[k + 1].reason.pct
              /\ \E p \in RequestChannels : Abs(RequestAdjustment(p)) = list[k].reason.pct
              /\ Cardinality({q \in RequestChannels :
                                 Abs(RequestAdjustment(q)) > list[k].reason.pct}) < 3

C17_Witness ==
    /\ Len(suggestions.list) = 3
    /\ suggestions.list[1].reason.pct > suggestions.list[3].reason.pct
    /\ Cardinality({q \in RequestChannels :
                       Abs(RequestAdjustment(q)) > RequestThreshold}) > 3

RequestNodes == {suggestions.channels[i].node : i \in 1..Len(suggestions.channels)}

NodePubkey(node) ==
    CASE node = "alice" -> <<"03aa11bb", "01">>
      [] node = "bob"   -> <<"03cc22dd", "02">>

RemoteKnown(chan) == \E n \in RequestNodes : NodePubkey(n) = chan.remote_pubkey

(* C19: a recommendation is emitted only for a channel whose actual remote *)
(* counterpart is one of the known nodes; a channel whose counterpart      *)
(* cannot be resolved produces no recommendation.                          *)
C19_OnlyResolvedCounterparts ==
    \A k \in 1..Len(suggestions.list) :
        \E p \in RequestChannels :
            /\ Abs(RequestAdjustment(p)) = suggestions.list[k].reason.pct
            /\ RemoteKnown(suggestions.channels[p[1]].chans[p[2]])

(***************************************************************************)
(* The Feature Extractor on its own: process_features applied to tables of *)
(* every column set drawn from the required columns.                       *)
(***************************************************************************)
TableColumnSets ==
    {cols \cup extra : cols \in SUBSET REQUIRED_COLUMNS, extra \in {{}, {"_data_type"}}}

(* the extractor keeps nothing between calls: one call per behaviour *)
ProcessFeatures ==
    /\ ret.op = "none"
    /\ \E columns \in TableColumnSets, n \in 0..MaxRows, datetime_ts \in BOOLEAN :
          LET out == process_features(columns, n, datetime_ts)
          IN  ret' = [op |-> "process_features", value |-> out.error = "none",
                      raised |-> out.error # "none", rows |-> [i \in 1..out.n |-> i],
                      asked |-> n, given |-> columns, error |-> out.error,
                      columns |-> out.columns]
    /\ UNCHANGED <<learner_vars, suggestions, client_env, inflight>>

(* calculate_liquidity_stress on a table of rows with a capacity and a     *)
(* local balance; stress is in thousandths.  A zero capacity either raises *)
(* ZeroDivisionError or yields a NaN / inf value, depending on the row's   *)
(* dtype.                                                                  *)
StressCapacities == {0, 1000, 2000}
StressBalances == {-500, 0, 500, 1000, 1500, 2000, 2500}

StressRows ==
    {[capacity |-> c, local_balance |-> b] : c \in StressCapacities, b \in StressBalances}

(* faulty variant of the stress: the nearer extreme instead of the farther *)
liquidity_stress_min(row) ==
    LET ratio == (row.local_balance * 1000) \div row.capacity
    IN  Min2(1000 - ratio, ratio)

liquidity_stress(row) ==
    LET ratio == (row.local_balance * 1000) \div row.capacity
    IN  Max2(1000 - ratio, ratio)

StressRow(row) ==
    IF row.capacity = 0
      THEN [capacity |-> row.capacity, local_balance |-> row.local_balance,
            liquidity_stress |-> 0, nan |-> TRUE]
      ELSE [capacity |-> row.capacity, local_balance |-> row.local_balance,
            liquidity_stress |-> liquidity_stress(row), nan |-> FALSE]

calculate_liquidity_stress(table, zero_raises) ==
    IF zero_raises /\ \E i \in 1..Len(table) : table[i].capacity = 0
      THEN [raised |-> TRUE, rows |-> <<>>]
      ELSE [raised |-> FALSE, rows |-> [i \in 1..Len(table) |-> StressRow(table[i])]]

CalculateLiquidityStress ==
    /\ ret.op = "none"
    /\ \E table \in SeqsUpTo(StressRows, MaxRows) \ {<<>>}, zero_raises \in BOOLEAN :
          LET out == calculate_liquidity_stress(table, zero_raises)
          IN  ret' = [op |-> "calculate_liquidity_stress", value |-> ~out.raised,
                      raised |-> out.raised, rows |-> out.rows,
                      asked |-> Len(table), given |-> {"capacity", "local_balance"},
                      error |-> IF out.raised THEN "ZeroDivisionError" ELSE "none",
                      columns |-> IF out.raised THEN {}
                                  ELSE {"capacity", "local_balance", "liquidity_stress"}]
    /\ UNCHANGED <<learner_vars, suggestions, client_env, inflight>>

(* calculate_balance_velocity on a table of rows with a channel, an hourly *)
(* timestamp and a local balance.  Row i of the input has index label i,   *)
(* which sort_values keeps.  The order of rows with equal timestamps after *)
(* the sort is not fixed (quicksort).                                      *)
MaxEvents == 3
VelocityChannels == {"c1", "c2"}
VelocityHours == {0, 1, 2}
VelocityBalances == {0, 600}

VelocityRows ==
    {[channel_id |-> c, timestamp |-> t, local_balance |-> b] :
        c \in VelocityChannels, t \in VelocityHours, b \in VelocityBalances}

(* the orders sort_values('timestamp') may produce: f[k] is the index      *)
(* label of the k-th row of the sorted table                               *)
SortedOrders(table) ==
    {f \in [1..Len(table) -> 1..Len(table)] :
        /\ \A a, b \in 1..Len(table) : a # b => f[a] # f[b]
        /\ \A a, b \in 1..Len(table) :
              a < b => table[f[a]].timestamp <= table[f[b]].timestamp}

(* position of the previous row of the same channel in the sorted table,   *)
(* 0 when there is none: what groupby('channel_id').diff() pairs a row with *)
PreviousInGroup(table, f, k) ==
    LET before == {j \in 1..(k - 1) : table[f[j]].channel_id = table[f[k]].channel_id}
    IN  IF before = {} THEN 0 ELSE CHOOSE j \in before : \A m \in before : m <= j

(* balance_change / time_diff: NaN for the first row of a group and for    *)
(* 0/0, +-inf for a non-zero change over a zero time difference            *)
RawVelocity(table, f, k) ==
    LET p == PreviousInGroup(table, f, k)
        change == table[f[k]].local_balance - table[f[p]].local_balance
        hours == table[f[k]].timestamp - table[f[p]].timestamp
    IN  IF p = 0 THEN [null |-> TRUE, inf |-> FALSE, v |-> 0]
        ELSE IF hours = 0
          THEN IF change = 0 THEN [null |-> TRUE, inf |-> FALSE, v |-> 0]
               ELSE [null |-> FALSE, inf |-> TRUE, v |-> IF change > 0 THEN 1 ELSE -1]
        ELSE [null |-> FALSE, inf |-> FALSE, v |-> change \div hours]

(* faulty variant of fillna(0): NaN values kept *)
fillna_skipped(velocity) == velocity

fillna(velocity) ==
    IF velocity.null THEN [null |-> FALSE, inf |-> FALSE, v |-> 0] ELSE velocity

calculate_balance_velocity(table, f) ==
    [k \in 1..Len(table) |->
        [index |-> f[k], channel_id |-> table[f[k]].channel_id,
         timestamp |-> table[f[k]].timestamp,
         local_balance |-> table[f[k]].local_balance,
         balance_velocity |-> fillna(RawVelocity(table, f, k))]]

CalculateBalanceVelocity ==
    /\ ret.op = "none"
    /\ \E table \in SeqsUpTo(VelocityRows, MaxEvents) \ {<<>>} :
          \E f \in SortedOrders(table) :
              ret' = [op |-> "calculate_balance_velocity", value |-> TRUE,
                      raised |-> FALSE, rows |-> calculate_balance_velocity(table, f),
                      asked |-> Len(table),
                      given |-> {"channel_id", "timestamp", "local_balance"},
                      error |-> "none",
                      columns |-> {"channel_id", "timestamp", "local_balance",
                                   "balance_velocity"}]
    /\ UNCHANGED <<learner_vars, suggestions, client_env, inflight>>

InitFeatures == InitLearner({ServiceConfig}, {FALSE}) /\ client_env = DefaultClientEnv

NextFeatures ==
    \/ ProcessFeatures
    \/ CalculateLiquidityStress
    \/ CalculateBalanceVelocity

SpecFeatures == InitFeatures /\ [][NextFeatures]_vars

(* C20: the Feature Extractor rejects with a validation error every input  *)
(* that is empty or lacks any of timestamp, channel_id, capacity,          *)
(* local_balance, remote_balance, balance_ratio, and produces no feature   *)
(* table for it.                                                           *)
C20_InvalidInputRejected ==
    (/\ ret.op = "process_features"
     /\ \/ ret.asked = 0
        \/ ret.given = {}
        \/ \E f \in {"timestamp", "channel_id", "capacity", "local_balance",
                     "remote_balance", "balance_ratio"} : f \notin ret.given)
    => /\ ret.raised
       /\ ret.error = "ValueError"
       /\ ret.rows = <<>>
       /\ ret.columns = {}

C20_Witness ==
    /\ ret.op = "process_features"
    /\ ret.asked > 0
    /\ ret.given = {"timestamp", "channel_id", "capacity", "local_balance",
                    "balance_ratio"}
    /\ ret.error = "ValueError"

(* C21: on a fitted model, predict raises SchemaMismatchError whenever the  *)
(* number of feature columns of the input differs from the input width the *)
(* stored scaler was fitted with.                                          *)
C21_MismatchRaises ==
    (/\ ret.op = "predict"
     /\ is_fitted
     /\ scaler.fitted
     /\ Cardinality(ret.given \ {"channel_id", "timestamp"}) # Cardinality(FeatureColumns))
    => /\ ret.raised
       /\ ret.error = "SchemaMismatchError"

(* C24: every score the evaluate step returns is strictly greater than 0   *)
(* and at most 1.                                                          *)
C24_ScoreInRange ==
    \A i \in 1..Len(performance_history) :
        performance_history[i] > 0 /\ performance_history[i] <= 1000000

(* C22: a learner constructed from a model artifact is fitted only when    *)
(* the scaler artifact with the same timestamp suffix is present too; when *)
(* the scaler artifact is missing, loading does not produce a fitted       *)
(* model.                                                                  *)
C22_LoadNeedsBoth ==
    (preloaded /\ scaler.origin = "new") => ~is_fitted

(***************************************************************************)
(* A second learner constructed from the model path of a snapshot          *)
(* (__init__ with model_path, _load_model).                                *)
(***************************************************************************)
(* faulty variant of _load_model: the scaler artifact is never read *)
load_scaler_fresh(s) == NewScaler

load_scaler(s) == IF s.scaler_written THEN s.scaler ELSE NewScaler

LoadSnapshot ==
    \E s \in snapshots :
        /\ model' = s.model
        /\ scaler' = load_scaler(s)
        /\ is_fitted' = TRUE
        /\ buffer' = <<>>
        /\ transaction_count' = 0
        /\ learning_rate' = InitialRate
        /\ performance_history' = <<>>
        /\ preloaded' = TRUE
        /\ submitted' = <<>>
        /\ ret' = Returned("load", s.scaler_written)
        /\ suggestions' = NoSuggestions
        /\ UNCHANGED <<buffer_size, min_samples_for_update, update_interval,
                       snapshots, fit_accepts_nan, client_env, inflight>>

NextReload == Next \/ LoadSnapshot

SpecReload == Init /\ [][NextReload]_vars

C25_Original ==
    ret.op = "calculate_liquidity_stress" =>
        /\ ~ret.raised
        /\ \A i \in 1..Len(ret.rows) :
              /\ ~ret.rows[i].nan
              /\ ret.rows[i].liquidity_stress >= 500
              /\ ret.rows[i].liquidity_stress <= 1000

(* C25 amended: for every row whose capacity is positive and whose local   *)
(* balance lies between 0 and the capacity, the computed liquidity_stress  *)
(* lies in [0.5, 1.0].                                                     *)
C25_Amended ==
    ret.op = "calculate_liquidity_stress" =>
        \A i \in 1..Len(ret.rows) :
            (/\ ret.rows[i].capacity > 0
             /\ ret.rows[i].local_balance >= 0
             /\ ret.rows[i].local_balance <= ret.rows[i].capacity)
            => /\ ~ret.rows[i].nan
               /\ ret.rows[i].liquidity_stress >= 500
               /\ ret.rows[i].liquidity_stress <= 1000

C25_Witness ==
    /\ ret.op = "calculate_liquidity_stress"
    /\ \E i \in 1..Len(ret.rows) :
          /\ ret.rows[i].capacity = 2000
          /\ ret.rows[i].local_balance = 500
          /\ ret.rows[i].liquidity_stress = 750

(* C26: an event is never modified after creation: after add_transaction   *)
(* or add_channel_state the event object passed by the caller (the object  *)
(* that was buffered) has exactly the fields it was created with.          *)
C26_EventUnmodified ==
    \A i \in 1..Len(submitted) :
        EventColumns(submitted[i]) = ShapeColumns(submitted[i].shape)

(* the nearest earlier row (in the returned order) of the same channel as   *)
(* row k of the returned table, 0 when row k is the first of its channel   *)
PrecedingSameChannel(k) ==
    LET before == {j \in 1..(k - 1) : ret.rows[j].channel_id = ret.rows[k].channel_id}
    IN  IF before = {} THEN 0 ELSE CHOOSE j \in before : \A m \in before : m <= j

(* C27: balance-velocity computation returns exactly one row per input row, *)
(* every row has a non-null balance_velocity, the first observation of     *)
(* each channel has velocity 0, and a later row's velocity is the change   *)
(* of local balance per hour since the preceding event of the same         *)
(* channel, whatever events of other channels lie in between.              *)
C27_Velocity ==
    ret.op = "calculate_balance_velocity" =>
        /\ Len(ret.rows) = ret.asked
        /\ {ret.rows[k].index : k \in 1..Len(ret.rows)} = 1..ret.asked
        /\ \A k \in 1..Len(ret.rows) :
              LET row == ret.rows[k]
                  p == PrecedingSameChannel(k)
              IN  /\ ~row.balance_velocity.null
                  /\ p = 0 => (~row.balance_velocity.inf /\ row.balance_velocity.v = 0)
                  /\ (p # 0 /\ row.timestamp # ret.rows[p].timestamp) =>
                        /\ ~row.balance_velocity.inf
                        /\ row.balance_velocity.v * (row.timestamp - ret.rows[p].timestamp)
                              = row.local_balance - ret.rows[p].local_balance

C27_Witness ==
    /\ ret.op = "calculate_balance_velocity"
    /\ Len(ret.rows) = 3
    /\ ret.rows[1].channel_id = "c1" /\ ret.rows[1].balance_velocity.v = 0
    /\ ret.rows[2].channel_id = "c2" /\ ret.rows[2].balance_velocity.v = 0
    /\ ret.rows[3].channel_id = "c1" /\ ret.rows[3].balance_velocity.v = 300

(* C28: with 1 <= buffer_size < min_samples_for_update no add call ever     *)
(* returns True, and a learner that starts unfitted stays unfitted however *)
(* many events are submitted.                                              *)
C28_NeverTriggers ==
    (buffer_size >= 1 /\ buffer_size < min_samples_for_update) =>
        /\ (ret.op \in AddOps => ~ret.value)
        /\ (~preloaded => ~is_fitted)

C28_Witness ==
    /\ buffer_size < min_samples_for_update
    /\ ~preloaded
    /\ ret.op \in AddOps
    /\ transaction_count >= min_samples_for_update
    /\ transaction_count % update_interval = 0

(* C30: a retrain call that returns True empties the buffer and leaves the  *)
(* event count as it was; every add call lengthens the buffer by at most   *)
(* one event and returns True only with at least min_samples_for_update    *)
(* events buffered and the event count a multiple of update_interval: so   *)
(* after a successful retrain no add call returns True before              *)
(* min_samples_for_update further events have been added.                  *)
C30_AfterRetrain ==
    [][/\ (ret'.op = "retrain" /\ ret'.value) =>
              (buffer' = <<>> /\ transaction_count' = transaction_count)
       /\ AddStep =>
              /\ Len(buffer') <= Len(buffer) + 1
              /\ ret'.value =>
                    /\ Len(buffer') >= min_samples_for_update
                    /\ transaction_count' % update_interval = 0]_vars

C30_Witness ==
    /\ performance_history # <<>>
    /\ ret.op \in AddOps
    /\ ret.value
    /\ model.origin = "update"
    /\ Len(buffer) = min_samples_for_update

(* C29: retrain is all-or-nothing on failure: whenever a retrain call       *)
(* returns False the buffer, the learning rate and the performance history *)
(* are exactly as they were before the call.                               *)
C29_AllOrNothing ==
    [][(ret'.op = "retrain" /\ ~ret'.value /\ ~AddStep) =>
          /\ buffer' = buffer
          /\ learning_rate' = learning_rate
          /\ performance_history' = performance_history]_vars

====
